---- MODULE Spec2Model ----
(***************************************************************************)
(* Model of the development watcher of fivem-twore                         *)
(* (src/src/scripts/moveBuiltResources.ts, lines 120-469) together with    *)
(* the lifecycle client CoreManager (src/src/scripts/fxmanifest.js,        *)
(* lines 212-360), the script moveBuiltResources (same file, lines 1-118)  *)
(* and the exits of the build commands the watcher runs                    *)
(* (src/src/scripts/buildPluginScripts.ts, src/unnamed/part_004).          *)
(*                                                                         *)
(* The watcher is a single-threaded event loop.  Every action below is one *)
(* run-to-completion step of that loop: the delivery of a file event to a  *)
(* chokidar handler, the firing of a debounce timer, or the resumption of  *)
(* an async task after the operation it awaits has settled.                *)
(*                                                                         *)
(* Further parts: the events the watchers get of the builds' own writes    *)
(* (EchoSpec), the hot-reload server of src/src/core/index.ts (ReloadSpec) *)
(* and the synchronous functions discoverPlugins, the path-to-key mapping  *)
(* of the plugin watcher, validateManifest, the plugin validator of        *)
(* src/src/core/server/pluginValidator.ts and buildPluginScripts.ts, each  *)
(* applied once to an input of a bounded set (CallSpec).                   *)
(***************************************************************************)
EXTENDS Integers, Sequences, FiniteSets, TLC

\* ---------------------------------------------------------------- bounds
NumPlugins == 2        \* number of discovered plugin directories
NumDistDirs == 1       \* number of resource directories seen under dist/
MaxEvents == 2         \* number of file events the watchers deliver
NumFiles == 2          \* number of files one build of a target writes

\* ------------------------------------------------------------------ keys
\* A debounce key / build target is a pair <<kind, index>>.
CoreKey == <<"core", 0>>
WebviewKey == <<"webview", 0>>
MovedKey == <<"moved-webview-assets", 0>>
InitKey == <<"init", 0>>

\* pluginDirs: the plugin directories discovered once at start, in
\* discovery order.
pluginDirs == [i \in 1..NumPlugins |-> <<"plugin", i>>]

PluginKeys == {pluginDirs[i] : i \in 1..NumPlugins}

\* keys `resource-${potentialResource}` of the dist watcher
ResourceKeys == {<<"resource", i>> : i \in 1..NumDistDirs}

\* the three kinds of build target that have sources
SourceKeys == {CoreKey, WebviewKey} \cup PluginKeys

\* every key debounce() is ever called with
Keys == SourceKeys \cup ResourceKeys \cup {MovedKey}

\* value of timers.get(key) when the Map has no entry for key
NoTimer == 0

\* The methods the class CoreManager defines.
CoreManagerMethods ==
  {"getResources", "restartResource", "restartAllResources", "resourceExists"}

\* lifecycle requests of one build cycle: issued per kind, and how many of
\* them failed (a rejected request, a non-2xx answer, a missing method)
NoCalls == [list |-> 0, start |-> 0, restart |-> 0, failed |-> 0]

\* ------------------------------------------------------------ file trees
\* A built file is written as the number of the build that wrote it: b > 0
\* for a run of the build command that succeeded, -b for one that failed,
\* 0 where there is no file.
Files == 1..NumFiles

NoFiles == [f \in Files |-> 0]

\* an output directory: missing, empty, holding the whole output of build
\* b, or holding what a failed build b left behind
Absent == [exists |-> FALSE, files |-> NoFiles]

EmptyDir == [exists |-> TRUE, files |-> NoFiles]

Output(b) == [exists |-> TRUE, files |-> [f \in Files |-> b]]

Leftover(b) == [exists |-> TRUE, files |-> [f \in Files |-> IF f = 1 THEN 0 - b ELSE 0]]

\* The top-level directory of dist/ that holds the output of a target:
\* dist/core, dist/webview, dist/<namespace> for the plugin
\* src/plugins/<namespace>/<plugin>.  Plugins 1 and 2 share a namespace,
\* plugins 3 and 4 the next one.
TopLevel(t) ==
  IF t \in PluginKeys THEN <<"namespace", (t[2] + 1) \div 2>> ELSE t

VARIABLES
  isBuilding,   \* the global flag `let isBuilding`
  timers,       \* the Map `timers`: key -> timer handle (NoTimer: no entry)
  live,         \* timers pending in the event loop: records [id, key]
  tasks,        \* running async tasks: task id -> task record
  delivered,    \* history: number of file events delivered so far
  bursts,       \* history: per key, accepted events that found no entry in timers
  invoked,      \* history: per key, number of times the debounced task was invoked
  spaced,       \* history: per key, events delivered while no timer of the key was pending
  accepted,     \* history: per key, events that reached debounce
  missed,       \* history: per source target, an event was dropped and no build was spawned since
  staging,      \* per plugin, the files of <pluginDir>/dist
  dist,         \* per source target, its directory under dist/
  generated,    \* per source target, its directory under resources/[GENERATED]/
  builds,       \* per source target, number of runs of its build command so far
  uncaught,     \* an exception has left a task body uncaught
  echo,         \* what the watchers have been told of the writes of the builds themselves
  hot,          \* the hot-reload server of src/core/index.ts
  call          \* the last call of one of the synchronous functions, its input and result

vars == <<isBuilding, timers, live, tasks, delivered, bursts, invoked, spaced, accepted, missed,
          staging, dist, generated, builds, uncaught, echo, hot, call>>

\* Nothing has been reported to a watcher yet:
\*   app     number of the webview build whose src/webview/App.tsx was reported
\*   assets  the state of [GENERATED]/webview that was reported
\*   n       events of this kind delivered so far
\*   scheduled  how many of them reached debounce
NoEcho == [app |-> 0, assets |-> Absent, n |-> 0, scheduled |-> 0]

\* The hot-reload server of src/core/index.ts:
\*   started         startHotReloadServer has been called
\*   restartCommand  options.restartCommand ("none": not given)
\*   clients         wss.clients, in insertion order
\*   readyState      readyState of every socket ("CLOSED": not in wss.clients)
\*   events          file events the watcher has delivered
\*   log             what the handler did for the last event, in order
\*   seen            readyState of every socket when that event was handled
NumClients == 2        \* number of sockets that can connect
MaxChanges == 2        \* number of file events under src/ the server sees
MaxLines == 3          \* number of lines of the longest server.cfg

Sockets == 1..NumClients

\* before startHotReloadServer is called
HotOff == [started |-> FALSE, restartCommand |-> "none", clients |-> <<>>,
           readyState |-> [c \in Sockets |-> "CLOSED"], events |-> 0, log |-> <<>>,
           seen |-> [c \in Sockets |-> "CLOSED"]]

\* No synchronous function has been called yet.
NoCall == [fn |-> "none"]

\* ----------------------------------------------------------------- tasks
\* A task is the body of one async function that is running:
\*   key    the debounce key that started it (InitKey for the initial pass)
\*   queue  the targets it still has to process, the current one first
\*   pc     the operation it is awaiting
\*   guard  TRUE iff the task sets isBuilding (all tasks but resource-*)
\*   calls  lifecycle requests issued for the current target
\*   inList result of resourceExists for the current target
\*   done   steps of the current cycle that have succeeded
\*   ended  targets whose rebuild function has returned to this task
\*   build  number of the run of the build command of the current cycle
\*   moved  files the rename loop of the current cycle has moved
\*   manifest  what the build command of the current cycle found in plugin.json
\*   pages  what exists(pageTsx) returned for the targets checked so far
Task(key, queue, pc, guard) ==
  [key |-> key, queue |-> queue, pc |-> pc, guard |-> guard,
   calls |-> NoCalls, inList |-> FALSE, done |-> {}, ended |-> <<>>,
   build |-> 0, moved |-> 0, manifest |-> "unread", pages |-> <<>>]

Target(t) == Head(t.queue)

FreshId(used) == CHOOSE i \in 1..(Cardinality(used) + 1) : i \notin used

Remove(f, id) == [i \in (DOMAIN f) \ {id} |-> f[i]]

BuildTasks == {id \in DOMAIN tasks : tasks[id].guard}

Pending(k) == IF timers[k] # NoTimer THEN 1 ELSE 0

\* Order of the rebuild calls of the initial pass.
\* an initial pass that builds the plugins before the core
InitialOrderPluginsFirst == pluginDirs \o <<CoreKey, WebviewKey>>

InitialOrder == <<CoreKey, WebviewKey>> \o pluginDirs

\* `isBuilding = true`, the first statement of the initial pass, which runs
\* before any watcher is created.
\* an initial pass that does not take the guard
InitialGuardUnset == FALSE

InitialGuard == TRUE

Init ==
  /\ isBuilding = InitialGuard
  /\ timers = [k \in Keys |-> NoTimer]
  /\ live = {}
  /\ tasks = (1 :> Task(InitKey, InitialOrder, "fetch", TRUE))
  /\ delivered = 0
  /\ bursts = [k \in Keys |-> 0]
  /\ invoked = [k \in Keys |-> 0]
  /\ spaced = [k \in Keys |-> 0]
  /\ accepted = [k \in Keys |-> 0]
  /\ missed = [k \in SourceKeys |-> FALSE]
  /\ staging = [p \in PluginKeys |-> NoFiles]
  /\ dist = [t \in SourceKeys |-> Absent]
  /\ generated = [t \in SourceKeys |-> Absent]
  /\ builds = [t \in SourceKeys |-> 0]
  /\ uncaught = FALSE
  /\ echo = NoEcho
  /\ hot = HotOff
  /\ call = NoCall


\* ------------------------------------------------------------- debounce
\* debounce(key, fn): clearTimeout of the timer timers has for key, then
\* setTimeout of a new one, then timers.set(key, t).
\* debounce that forgets clearTimeout(existing)
debounceNoClear(key) ==
  LET t == FreshId({x.id : x \in live})
  IN /\ live' = live \cup {[id |-> t, key |-> key]}
     /\ timers' = [timers EXCEPT ![key] = t]

\* debounce that keeps one timer for all keys instead of one per key
debounceShared(key) ==
  LET t == FreshId({x.id : x \in live})
  IN /\ live' = {[id |-> t, key |-> key]}
     /\ timers' = [k \in Keys |-> IF k = key THEN t ELSE NoTimer]

debounce(key) ==
  LET existing == timers[key]
      kept == IF existing # NoTimer THEN {x \in live : x.id # existing} ELSE live
      t == FreshId({x.id : x \in live})
  IN /\ live' = kept \cup {[id |-> t, key |-> key]}
     /\ timers' = [timers EXCEPT ![key] = t]

\* `if (isBuilding) return;`, the first statement of every chokidar handler
\* a handler that lacks the isBuilding check
DroppedNever == FALSE

Dropped == isBuilding

\* History of one delivered event whose path maps to key k.
Deliver(k) ==
  /\ delivered < MaxEvents
  /\ delivered' = delivered + 1
  /\ spaced' = IF timers[k] = NoTimer THEN [spaced EXCEPT ![k] = @ + 1] ELSE spaced
  /\ missed' = IF k \in SourceKeys /\ Dropped THEN [missed EXCEPT ![k] = TRUE] ELSE missed
  /\ UNCHANGED invoked

\* A handler that ends in debounce(k, ...).
Handle(k) ==
  /\ Deliver(k)
  /\ IF Dropped
       THEN UNCHANGED <<timers, live, bursts, accepted>>
       ELSE /\ debounce(k)
            /\ accepted' = [accepted EXCEPT ![k] = @ + 1]
            /\ bursts' = IF timers[k] = NoTimer THEN [bursts EXCEPT ![k] = @ + 1] ELSE bursts
  /\ UNCHANGED <<isBuilding, tasks, staging, dist, generated, builds, uncaught>>
  /\ UNCHANGED <<echo, hot, call>>

\* An event a handler returns on without calling debounce.
Unmapped ==
  /\ delivered < MaxEvents
  /\ delivered' = delivered + 1
  /\ UNCHANGED <<isBuilding, timers, live, tasks, bursts, invoked, spaced, accepted, missed>>
  /\ UNCHANGED <<staging, dist, generated, builds, uncaught, echo, hot, call>>

\* Plugin watcher, path inside the plugin directory dir.
PluginEvent(dir) == Handle(dir)

\* Plugin watcher, path inside no discovered plugin directory.
PluginEventOutside == Unmapped

\* Core watcher.
CoreEvent == Handle(CoreKey)

\* Webview watcher; inDist: the path contains '/dist/'.
WebviewEvent(inDist) == IF inDist THEN Unmapped ELSE Handle(WebviewKey)

\* dist watcher; r = 0: the first path component is empty or 'scripts'.
DistEvent(r) == IF r = 0 THEN Unmapped ELSE Handle(<<"resource", r>>)

\* Watcher of the moved webview assets.
MovedWebviewAssetsEvent == Handle(MovedKey)


\* ------------------------------------------------------------ exec spawn
\* A task that comes to await exec(...) has spawned the next run of the
\* build command of its target.
Spawned(t) == IF t.pc = "exec" THEN [t EXCEPT !.build = builds[Target(t)] + 1] ELSE t

Runs(t) == IF t.pc = "exec" THEN [builds EXCEPT ![Target(t)] = @ + 1] ELSE builds

\* ---------------------------------------------------------- timer firing
\* The callback setTimeout was given: timers.delete(key), then fn() runs up
\* to its first await.  fn is the closure the handler of the key passed.
\* the timer callback without timers.delete(key)
TimerFireNoDelete(t) ==
  LET k == t.key
      new == CASE k \in PluginKeys -> Task(k, <<k>>, "clean", TRUE)
               [] k \in {CoreKey, WebviewKey} -> Task(k, <<k>>, "exec", TRUE)
               [] k \in ResourceKeys -> Task(k, <<k>>, "exists", FALSE)
               [] OTHER -> Task(k, pluginDirs, "page", TRUE)
  IN /\ t \in live
     /\ live' = live \ {t}
     /\ timers' = timers
     /\ invoked' = [invoked EXCEPT ![k] = @ + 1]
     /\ isBuilding' = IF new.guard THEN TRUE ELSE isBuilding
     /\ tasks' = (FreshId(DOMAIN tasks) :> Spawned(new)) @@ tasks
     /\ builds' = Runs(new)
     /\ missed' = IF new.pc = "exec" THEN [missed EXCEPT ![k] = FALSE] ELSE missed
     /\ UNCHANGED <<delivered, bursts, spaced, accepted, staging, dist, generated, uncaught>>
     /\ UNCHANGED <<echo, hot, call>>

\* a timer callback that returns when it finds isBuilding set
TimerFireGuarded(t) ==
  /\ t \in live
  /\ isBuilding
  /\ live' = live \ {t}
  /\ timers' = [timers EXCEPT ![t.key] = NoTimer]
  /\ UNCHANGED <<isBuilding, tasks, delivered, bursts, invoked, spaced, accepted, missed>>
  /\ UNCHANGED <<staging, dist, generated, builds, uncaught, echo, hot, call>>

TimerFire(t) ==
  LET k == t.key
      new == CASE k \in PluginKeys -> Task(k, <<k>>, "clean", TRUE)
               [] k \in {CoreKey, WebviewKey} -> Task(k, <<k>>, "exec", TRUE)
               [] k \in ResourceKeys -> Task(k, <<k>>, "exists", FALSE)
               [] OTHER -> Task(k, pluginDirs, "page", TRUE)
  IN /\ t \in live
     /\ live' = live \ {t}
     /\ timers' = [timers EXCEPT ![k] = NoTimer]
     /\ invoked' = [invoked EXCEPT ![k] = @ + 1]
     /\ isBuilding' = IF new.guard THEN TRUE ELSE isBuilding
     /\ tasks' = (FreshId(DOMAIN tasks) :> Spawned(new)) @@ tasks
     /\ builds' = Runs(new)
     /\ missed' = IF new.pc = "exec" THEN [missed EXCEPT ![k] = FALSE] ELSE missed
     /\ UNCHANGED <<delivered, bursts, spaced, accepted, staging, dist, generated, uncaught>>
     /\ UNCHANGED <<echo, hot, call>>

\* ------------------------------------------------------------ task steps
\* first operation awaited by the rebuild function of a target
StartPc(target) == IF target \in PluginKeys THEN "clean" ELSE "exec"

\* The task body goes on with the target after the current one, or reaches
\* its end.
NextTarget(t) ==
  LET rest == Tail(t.queue)
      t2 == [t EXCEPT !.queue = rest, !.calls = NoCalls, !.inList = FALSE, !.done = {},
                      !.build = 0, !.moved = 0, !.manifest = "unread"]
  IN IF rest # <<>>
       THEN [t2 EXCEPT !.pc = IF t.key = MovedKey THEN "page" ELSE StartPc(Head(rest))]
       ELSE [t2 EXCEPT !.pc = IF t.key = InitKey THEN "final" ELSE "finally"]

\* Control returns from the rebuild of the current target to the task body.
AfterCycle(t) == NextTarget([t EXCEPT !.ended = Append(@, Target(t))])

\* An exception leaves the rebuild function and reaches the task body.
Throw(t) == [t EXCEPT !.pc = "thrown"]

\* The task body wraps its awaits in try/catch: the timer callback of
\* debounce, the initial pass and the moved-webview-assets task all do.
Caught(t) == TRUE

\* The task id goes on as t2; a task that reaches its end runs its catch
\* and finally blocks (isBuilding = false for the tasks that set it) and is
\* gone.
\* a task end whose finally block leaves isBuilding as it is
ResumeNoReset(id, t2) ==
  /\ IF t2.pc \in {"finally", "thrown"}
       THEN tasks' = Remove(tasks, id)
       ELSE tasks' = [tasks EXCEPT ![id] = Spawned(t2)]
  /\ UNCHANGED isBuilding
  /\ builds' = Runs(t2)
  /\ uncaught' = (uncaught \/ (t2.pc = "thrown" /\ ~Caught(t2)))
  /\ missed' = IF t2.pc = "exec" THEN [missed EXCEPT ![Target(t2)] = FALSE] ELSE missed
  /\ UNCHANGED <<timers, live, delivered, bursts, invoked, spaced, accepted>>
  /\ UNCHANGED <<echo, hot, call>>

Resume(id, t2) ==
  /\ IF t2.pc \in {"finally", "thrown"}
       THEN /\ tasks' = Remove(tasks, id)
            /\ isBuilding' = IF t2.guard THEN FALSE ELSE isBuilding
       ELSE /\ tasks' = [tasks EXCEPT ![id] = Spawned(t2)]
            /\ UNCHANGED isBuilding
  /\ builds' = Runs(t2)
  /\ uncaught' = (uncaught \/ (t2.pc = "thrown" /\ ~Caught(t2)))
  /\ missed' = IF t2.pc = "exec" THEN [missed EXCEPT ![Target(t2)] = FALSE] ELSE missed
  /\ UNCHANGED <<timers, live, delivered, bursts, invoked, spaced, accepted>>
  /\ UNCHANGED <<echo, hot, call>>

\* a step that touches no file
NoFileChange == UNCHANGED <<staging, dist, generated>>

At(id, pc) == id \in DOMAIN tasks /\ tasks[id].pc = pc

\* fetchAvailableResources settles (its errors are caught inside it).
FetchAvailableResources(id) ==
  /\ At(id, "fetch")
  /\ Resume(id, [tasks[id] EXCEPT !.pc = StartPc(Target(tasks[id]))])
  /\ NoFileChange

\* exists(pageTsx) settles in the loop of the moved-webview-assets task.
\* a loop that rebuilds every plugin, with or without html/Page.tsx
PageExistsIgnored(id, has) ==
  /\ At(id, "page")
  /\ Resume(id, [tasks[id] EXCEPT !.pc = "clean", !.pages = Append(@, has)])
  /\ NoFileChange

PageExists(id, has) ==
  /\ At(id, "page")
  /\ LET t == [tasks[id] EXCEPT !.pages = Append(@, has)]
     IN IF has
          THEN Resume(id, [t EXCEPT !.pc = "clean"])
          ELSE Resume(id, NextTarget(t))
  /\ NoFileChange

\* rebuildPlugin: rm and mkdir of the destination dist/<rel> settle.
Clean(id, ok) ==
  /\ At(id, "clean")
  /\ LET t == tasks[id]
     IN /\ Resume(id, IF ok THEN [t EXCEPT !.pc = "exec"] ELSE Throw(t))
        /\ dist' = IF ok THEN [dist EXCEPT ![Target(t)] = EmptyDir] ELSE dist
  /\ UNCHANGED <<staging, generated>>

\* What a run of a build command can come to: "ok" exit code 0 with the
\* whole output written, "none" a failure before any output, "leftover" a
\* failure after part of the output was written.
Outcomes == {"ok", "none", "leftover"}

\* What the build command finds in plugin.json: JSON that satisfies the
\* manifest schema, JSON that does not, or no JSON at all.
Manifests == {"valid", "invalid", "unparsable"}

\* buildPluginScripts reads plugin.json with readJson and exits with 1 when
\* that fails; nothing else is checked.
ManifestAccepted(manifest) == manifest # "unparsable"

\* The external build command exits.  The plugin build writes into
\* <pluginDir>/dist; the core and webview builds write into dist/ themselves.
ExecDone(id, out, manifest) ==
  /\ At(id, "exec")
  /\ LET t == tasks[id]
         p == Target(t)
         b == t.build
         res == IF p \in PluginKeys /\ ~ManifestAccepted(manifest) THEN "none" ELSE out
     IN IF p \in PluginKeys
          THEN /\ Resume(id, IF res = "ok"
                               THEN [t EXCEPT !.pc = "move", !.done = @ \cup {"exec"},
                                              !.manifest = manifest]
                               ELSE Throw(t))
               /\ staging' = CASE res = "ok" -> [staging EXCEPT ![p] = [f \in Files |-> b]]
                               [] res = "leftover" -> [staging EXCEPT ![p][1] = 0 - b]
                               [] OTHER -> staging
               /\ UNCHANGED <<dist, generated>>
          ELSE /\ Resume(id, IF res = "ok"
                               THEN [t EXCEPT !.pc = "resources", !.done = @ \cup {"exec"}]
                               ELSE Throw(t))
               /\ dist' = CASE res = "ok" -> [dist EXCEPT ![p] = Output(b)]
                            [] res = "leftover" -> [dist EXCEPT ![p] = Leftover(b)]
                            [] OTHER -> dist
               /\ UNCHANGED <<staging, generated>>

\* rebuildPlugin: one rename of the loop over readdir(srcDist) settles.  It
\* fails when ok is false, when the file is no longer in <pluginDir>/dist or
\* when dist/<rel> is gone; the failure is caught by rebuildPlugin, which
\* returns.
MoveBuilt(id, ok) ==
  /\ At(id, "move")
  /\ LET t == tasks[id]
         p == Target(t)
         f == t.moved + 1
         renamed == ok /\ staging[p][f] # 0 /\ dist[p].exists
     IN IF renamed
          THEN /\ dist' = [dist EXCEPT ![p].files[f] = staging[p][f]]
               /\ staging' = [staging EXCEPT ![p][f] = 0]
               /\ Resume(id, IF f = NumFiles
                               THEN [t EXCEPT !.moved = f, !.pc = "resources",
                                              !.done = @ \cup {"move"}]
                               ELSE [t EXCEPT !.moved = f])
          ELSE /\ Resume(id, AfterCycle(t))
               /\ UNCHANGED <<staging, dist>>
  /\ UNCHANGED generated

\* The script moveBuiltResources: every top-level directory of dist/ replaces
\* the directory of the same name under resources/[GENERATED]/ (rm of the
\* destination, rename of the source).
Promoted(t) == \E u \in SourceKeys : TopLevel(u) = TopLevel(t) /\ dist[u].exists

moveBuiltResources ==
  /\ generated' = [t \in SourceKeys |-> IF Promoted(t) THEN dist[t] ELSE generated[t]]
  /\ dist' = [t \in SourceKeys |-> IF Promoted(t) THEN Absent ELSE dist[t]]
  /\ UNCHANGED staging

\* rebuildResources settles; a failure (taken at its first possible point,
\* before any directory was moved) is caught by the rebuild function.
\* a rebuild function that goes on to restartResource after a failed move
rebuildResourcesUnchecked(id, ok) ==
  /\ At(id, "resources")
  /\ LET t == tasks[id]
     IN Resume(id, IF ok THEN [t EXCEPT !.pc = "exists", !.done = @ \cup {"resources"}]
                   ELSE [t EXCEPT !.pc = "exists"])
  /\ IF ok THEN moveBuiltResources ELSE NoFileChange

rebuildResources(id, ok) ==
  /\ At(id, "resources")
  /\ LET t == tasks[id]
     IN Resume(id, IF ok THEN [t EXCEPT !.pc = "exists", !.done = @ \cup {"resources"}]
                   ELSE AfterCycle(t))
  /\ IF ok THEN moveBuiltResources ELSE NoFileChange

\* Number of requests `resourceManager.startResource(name)` issues: the
\* class has no such method, the call throws a TypeError that the catch of
\* restartResource logs.
startResource == IF "startResource" \in CoreManagerMethods THEN 1 ELSE 0

\* restartResource: resourceExists settles.  res is what getResources saw:
\* the name in the list, a list without the name, or a failure (then []).
resourceExists(id, res) ==
  /\ At(id, "exists")
  /\ LET t == tasks[id]
         found == (res = "listed")
         t2 == [t EXCEPT !.calls.list = @ + 1, !.inList = found,
                         !.calls.failed = IF res = "failed" THEN @ + 1 ELSE @]
     IN Resume(id, IF found
                     THEN [t2 EXCEPT !.pc = "restart", !.calls.restart = @ + 1]
                     ELSE [t2 EXCEPT !.pc = "returned", !.calls.start = @ + startResource,
                                     !.calls.failed = @ + (1 - startResource)])
  /\ NoFileChange

\* restartResource: POST /restart?resource=name settles, ok or not; a
\* failure is logged inside restartResource.
\* a restartResource that lets the failure of the request escape
RestartDoneThrows(id, ok) ==
  /\ At(id, "restart")
  /\ Resume(id, IF ok THEN [tasks[id] EXCEPT !.pc = "returned"] ELSE Throw(tasks[id]))
  /\ NoFileChange

RestartDone(id, ok) ==
  /\ At(id, "restart")
  /\ Resume(id, [tasks[id] EXCEPT !.pc = "returned",
                                  !.calls.failed = IF ok THEN @ ELSE @ + 1])
  /\ NoFileChange

\* restartResource has returned to the rebuild function, which returns.
Returned(id) ==
  /\ At(id, "returned")
  /\ Resume(id, AfterCycle(tasks[id]))
  /\ NoFileChange

\* Initial pass: the last rebuildResources settles; catch, finally.
FinalResources(id, ok) ==
  /\ At(id, "final")
  /\ Resume(id, IF ok THEN [tasks[id] EXCEPT !.pc = "finally"] ELSE Throw(tasks[id]))
  /\ IF ok THEN moveBuiltResources ELSE NoFileChange

TaskIds == 1..(MaxEvents + 1)

ListResults == {"listed", "absent", "failed"}

Next ==
  \/ \E dir \in PluginKeys : PluginEvent(dir)
  \/ PluginEventOutside
  \/ CoreEvent
  \/ \E inDist \in BOOLEAN : WebviewEvent(inDist)
  \/ \E r \in 0..NumDistDirs : DistEvent(r)
  \/ MovedWebviewAssetsEvent
  \/ \E t \in live : TimerFire(t)
  \/ \E id \in TaskIds : FetchAvailableResources(id)
  \/ \E id \in TaskIds, has \in BOOLEAN : PageExists(id, has)
  \/ \E id \in TaskIds, ok \in BOOLEAN : Clean(id, ok)
  \/ \E id \in TaskIds, out \in Outcomes, manifest \in Manifests : ExecDone(id, out, manifest)
  \/ \E id \in TaskIds, ok \in BOOLEAN : MoveBuilt(id, ok)
  \/ \E id \in TaskIds, ok \in BOOLEAN : rebuildResources(id, ok)
  \/ \E id \in TaskIds, res \in ListResults : resourceExists(id, res)
  \/ \E id \in TaskIds, ok \in BOOLEAN : RestartDone(id, ok)
  \/ \E id \in TaskIds : Returned(id)
  \/ \E id \in TaskIds, ok \in BOOLEAN : FinalResources(id, ok)

Spec == Init /\ [][Next]_vars

\* The watcher when only the core and the webview sources change.  A timer
\* setTimeout has scheduled and clearTimeout has not cancelled is run by
\* the event loop once its delay has passed.
TimerNext ==
  \/ CoreEvent
  \/ WebviewEvent(FALSE)
  \/ \E t \in live : TimerFire(t)
  \/ \E id \in TaskIds : FetchAvailableResources(id)
  \/ \E id \in TaskIds, ok \in BOOLEAN : Clean(id, ok)
  \/ \E id \in TaskIds, out \in Outcomes, manifest \in Manifests : ExecDone(id, out, manifest)
  \/ \E id \in TaskIds, ok \in BOOLEAN : MoveBuilt(id, ok)
  \/ \E id \in TaskIds, ok \in BOOLEAN : rebuildResources(id, ok)
  \/ \E id \in TaskIds, res \in ListResults : resourceExists(id, res)
  \/ \E id \in TaskIds, ok \in BOOLEAN : RestartDone(id, ok)
  \/ \E id \in TaskIds : Returned(id)
  \/ \E id \in TaskIds, ok \in BOOLEAN : FinalResources(id, ok)

TimerSpec == Init /\ [][TimerNext]_vars /\ WF_vars(\E t \in live : TimerFire(t))

TypeOK ==
  /\ isBuilding \in BOOLEAN
  /\ DOMAIN tasks \subseteq TaskIds
  /\ delivered \in 0..MaxEvents
  /\ uncaught \in BOOLEAN
  /\ \A t \in SourceKeys : builds[t] \in Nat /\ dist[t].exists \in BOOLEAN
  /\ \A p \in PluginKeys : \A f \in Files : staging[p][f] \in Int


\* ------------------------------------------------------------ properties
InitialPassDone == \A id \in DOMAIN tasks : tasks[id].key # InitKey

Quiescent == live = {} /\ DOMAIN tasks = {}

LiveOf(k) == {x \in live : x.key = k}

\* C1: at most one build task (a debounced rebuild or the initial pass) is
\* in progress in every reachable state.
C1_MutualExclusion == Cardinality(BuildTasks) <= 1

\* C2: a core build and a plugin build whose timers were pending together
\* are serialized: they are never in progress at the same time.
C2_CoreAndPluginSerialized ==
  ~ \E a \in BuildTasks, b \in BuildTasks :
       tasks[a].key = CoreKey /\ tasks[b].key \in PluginKeys

\* C3: every burst of accepted events of a key (each event arriving while
\* the timer of the previous one is pending) yields exactly one invocation
\* of the task, and not before the burst is over: per key, the invocations
\* are the bursts, less the burst whose timer is still pending.
C3_DebounceCoalescing ==
  \A k \in Keys : invoked[k] + Pending(k) = bursts[k]

\* C3 witness: a burst of two accepted events of one key has produced its
\* single invocation.
C3_Witness ==
  \E k \in Keys : accepted[k] = 2 /\ bursts[k] = 1 /\ invoked[k] = 1

\* C4: every event of a key that arrives while no timer of the key is
\* pending (the timer of the previous event has fired) yields one invocation
\* of the build task.
C4_SpacedEventsEachInvoke ==
  \A k \in Keys : spaced[k] = invoked[k] + Pending(k)

\* C5: per key at most one timer is pending, and timers has an entry for
\* the key exactly while a timer of the key is pending, that very timer.
C5_TimerMap ==
  \A k \in Keys :
    /\ Cardinality(LiveOf(k)) <= 1
    /\ (timers[k] # NoTimer) <=> (LiveOf(k) # {})
    /\ \A x \in LiveOf(k) : x.id = timers[k]

\* C5 witness: a key whose pending timer was cancelled and replaced by a
\* second event; the replacement is pending and nothing was invoked yet.
C5_Witness ==
  \E k \in Keys : accepted[k] = 2 /\ bursts[k] = 1 /\ invoked[k] = 0 /\ timers[k] # NoTimer

\* C6: a step that installs a timer for one key leaves the entry and the
\* pending timer of every other key as they were.
C6_PerKeyIndependence ==
  [][\A k \in Keys :
       (timers'[k] # timers[k] /\ timers'[k] # NoTimer) =>
          \A k2 \in Keys \ {k} :
             timers'[k2] = timers[k2] /\ {x \in live' : x.key = k2} = LiveOf(k2)]_vars

\* C6 witness: a plugin timer and the webview timer, each scheduled by an
\* event of its own watch tree, are pending together.
C6_Witness ==
  \E p \in PluginKeys :
     /\ accepted[p] = 1 /\ timers[p] # NoTimer
     /\ accepted[WebviewKey] = 1 /\ timers[WebviewKey] # NoTimer

\* C7: an event delivered to a watcher while isBuilding is true changes
\* neither timers, nor the pending timers, nor the tasks, nor the flag.
C7_DropOnContention ==
  [][(isBuilding /\ delivered' # delivered) =>
       UNCHANGED <<timers, live, tasks, isBuilding, accepted>>]_vars

\* C7 witness: after the initial pass, an event that could have been mapped
\* to a key was delivered during a build and dropped.
C7_Witness ==
  /\ InitialPassDone
  /\ isBuilding
  /\ \E k \in Keys : invoked[k] = 1 /\ spaced[k] = 2 /\ accepted[k] = 1

\* C8: no source event that arrives while the guard is held is lost: when
\* the watcher has come to rest, every target that had such an event has
\* had a build spawned after it.
C8_NoLostChange ==
  Quiescent => \A k \in SourceKeys : ~missed[k]

\* C9: isBuilding is true for as long as a build task awaits its build
\* command, its moves or its lifecycle calls.
C9_GuardHeldThroughout ==
  \A id \in BuildTasks :
     tasks[id].pc \in {"exec", "move", "resources", "exists", "restart"} => isBuilding

\* C10: when restartResource returns after a rebuild, the list was queried
\* once and exactly one mutating call was issued: restart if the name was
\* listed, start if it was not.
C10_LifecyclePolicy ==
  \A id \in BuildTasks :
     tasks[id].pc = "returned" =>
        /\ tasks[id].calls.list = 1
        /\ IF tasks[id].inList
             THEN tasks[id].calls.restart = 1 /\ tasks[id].calls.start = 0
             ELSE tasks[id].calls.start = 1 /\ tasks[id].calls.restart = 0

\* The steps a rebuild function awaits before it calls restartResource.
Required(target) ==
  IF target \in PluginKeys THEN {"exec", "move", "resources"} ELSE {"exec", "resources"}

LifecycleCalls(t) == t.calls.list + t.calls.start + t.calls.restart

\* C11: a lifecycle call of a build task (the existence query, the start or
\* the restart), failed or not, leaves every file tree as it is, lets no
\* exception out of the task and lets the task go on; when the task ends
\* after it, isBuilding is released.
C11_LifecycleFailuresNonFatal ==
  [][\A id \in BuildTasks :
       /\ (tasks[id].pc \in {"exists", "restart"}
             /\ (id \notin DOMAIN tasks' \/ tasks'[id] # tasks[id]))
            => /\ id \in DOMAIN tasks'
               /\ tasks'[id].pc \in {"restart", "returned"}
               /\ UNCHANGED <<staging, dist, generated>>
               /\ ~uncaught'
       /\ (tasks[id].pc = "returned" /\ id \notin DOMAIN tasks')
            => ~isBuilding' /\ ~uncaught']_vars

\* C11 witness: a lifecycle call of a build cycle has failed, restartResource
\* has returned, and the output the cycle promoted is in place.
C11_Witness ==
  \E id \in BuildTasks :
     /\ tasks[id].pc = "returned"
     /\ tasks[id].calls.failed >= 1
     /\ generated[Target(tasks[id])] = Output(tasks[id].build)

\* C12: within a build cycle a lifecycle call is issued only after the build
\* command, the move into dist/ and the move into the server resources have
\* all succeeded in that cycle.
C12_PipelineOrdering ==
  \A id \in BuildTasks :
     (LifecycleCalls(tasks[id]) > 0 \/ tasks[id].pc \in {"exists", "restart", "returned"})
        => Required(Target(tasks[id])) \subseteq tasks[id].done

\* C12 witness: a plugin cycle has issued its restart after all three steps.
C12_Witness ==
  \E id \in BuildTasks :
     /\ tasks[id].pc = "returned"
     /\ Target(tasks[id]) \in PluginKeys
     /\ tasks[id].calls.restart = 1
     /\ tasks[id].done = {"exec", "move", "resources"}

\* C13: no exception of a build task escapes its task body, and dist/ never
\* holds a file written by a run of a plugin build command that failed.
C13_FailedBuildContained ==
  /\ ~uncaught
  /\ \A p \in PluginKeys : \A f \in Files : dist[p].files[f] >= 0

\* C14: the initial pass ends only after it has gone through all its
\* targets: the failure of one target does not keep the others from being
\* built.
C14_FailureIsolation ==
  [][\A id \in DOMAIN tasks :
       (tasks[id].key = InitKey /\ id \notin DOMAIN tasks') => tasks[id].queue = <<>>]_vars

\* the plugin directories dist/<rel> no rename loop is working on
Settled == {p \in PluginKeys : \A id \in DOMAIN tasks :
                ~(tasks[id].pc = "move" /\ Target(tasks[id]) = p)}

Count(dir) == Cardinality({f \in Files : dir.files[f] # 0})

\* C15: once the rename loop of a plugin is over, failed or not, dist/<rel>
\* holds all the files of the build or none of them.
C15_NoPartialPromotion ==
  \A p \in Settled : Count(dist[p]) \in {0, NumFiles}

\* a directory whose files were all written by one run of a build command
OneBuild(dir) ==
  \A f \in Files, g \in Files :
     (dir.files[f] # 0 /\ dir.files[g] # 0) => dir.files[f] = dir.files[g]

\* C16: the output directory of a target, under dist/ and under the server
\* resources, never holds files of two different builds side by side.
C16_AtomicPromotion ==
  \A t \in SourceKeys : OneBuild(dist[t]) /\ OneBuild(generated[t])

\* C17: a step of the build cycle of one target changes the directory of no
\* other target, neither under dist/ nor under the server resources.
C17_WriteIsolation ==
  [][\A id \in DOMAIN tasks :
       (tasks[id].queue # <<>> /\ (id \notin DOMAIN tasks' \/ tasks'[id] # tasks[id]))
          => \A q \in SourceKeys \ {Target(tasks[id])} :
                generated'[q] = generated[q] /\ dist'[q] = dist[q]]_vars

\* C18: a plugin build command has succeeded, and with it has written the
\* host manifest, only for a plugin.json that satisfies the manifest schema.
C18_ValidationGate ==
  \A id \in DOMAIN tasks :
     ("exec" \in tasks[id].done /\ Target(tasks[id]) \in PluginKeys)
        => tasks[id].manifest = "valid"

Range(seq) == {seq[i] : i \in 1..Len(seq)}

\* C19: as long as the initial pass has not seen rebuildCore return, no
\* build command of a plugin or of the webview has been spawned.
C19_CoreFirst ==
  \A id \in DOMAIN tasks :
     (tasks[id].key = InitKey /\ CoreKey \notin Range(tasks[id].ended))
        => \A t \in SourceKeys \ {CoreKey} : builds[t] = 0

\* C19 witness: the initial pass has built the core and is awaiting the
\* build command of another target.
C19_Witness ==
  \E id \in DOMAIN tasks :
     /\ tasks[id].key = InitKey
     /\ tasks[id].pc = "exec"
     /\ tasks[id].ended = <<CoreKey>>
     /\ builds[CoreKey] = 1
     /\ builds[Target(tasks[id])] = 1

\* C20: in the initial pass no plugin build starts before the core build
\* has ended, and the webview build starts only after every plugin build
\* has ended.
C20_ThreeTierOrder ==
  \A id \in DOMAIN tasks :
     tasks[id].key = InitKey =>
        /\ (\E p \in PluginKeys : builds[p] > 0) => CoreKey \in Range(tasks[id].ended)
        /\ builds[WebviewKey] > 0 => PluginKeys \subseteq Range(tasks[id].ended)

\* ------------------------------------------- events of the builds' own writes
\* The watchers are told of what the builds themselves write.  Two of the
\* paths a build cycle writes are watched and match no ignore pattern:
\* src/webview/App.tsx, which every run of buildPluginsWebview.ts generates
\* (webview watcher, 'src/webview/**/*'), and the files under
\* [GENERATED]/webview/assets, which the move of dist/webview replaces
\* (watcher of the moved webview assets, no ignore list).  chokidar delivers
\* the event some time after the write; the handler is the one of the
\* watcher.
MaxEchoes == 2         \* number of such events the watchers deliver

\* One such event reaches the handler that ends in debounce(k, ...).
Echo(k, reported) ==
  /\ echo.n < MaxEchoes
  /\ echo' = [reported EXCEPT !.n = @ + 1,
                              !.scheduled = IF Dropped THEN @ ELSE @ + 1]
  /\ IF Dropped THEN UNCHANGED <<timers, live>> ELSE debounce(k)
  /\ UNCHANGED <<isBuilding, tasks, delivered, bursts, invoked, spaced, accepted, missed>>
  /\ UNCHANGED <<staging, dist, generated, builds, uncaught, hot, call>>

\* Webview watcher: src/webview/App.tsx was written by a webview build.
GeneratedAppEvent ==
  /\ echo.app < builds[WebviewKey]
  /\ Echo(WebviewKey, [echo EXCEPT !.app = builds[WebviewKey]])

\* Watcher of the moved webview assets: the move step replaced
\* [GENERATED]/webview.
MovedAssetsWritten ==
  /\ generated[WebviewKey] # echo.assets
  /\ Echo(MovedKey, [echo EXCEPT !.assets = generated[WebviewKey]])

\* The watcher left alone: no file is changed from outside.
EchoNext ==
  \/ GeneratedAppEvent
  \/ MovedAssetsWritten
  \/ \E t \in live : TimerFire(t)
  \/ \E id \in TaskIds : FetchAvailableResources(id)
  \/ \E id \in TaskIds, has \in BOOLEAN : PageExists(id, has)
  \/ \E id \in TaskIds, ok \in BOOLEAN : Clean(id, ok)
  \/ \E id \in TaskIds, out \in Outcomes, manifest \in Manifests : ExecDone(id, out, manifest)
  \/ \E id \in TaskIds, ok \in BOOLEAN : MoveBuilt(id, ok)
  \/ \E id \in TaskIds, ok \in BOOLEAN : rebuildResources(id, ok)
  \/ \E id \in TaskIds, res \in ListResults : resourceExists(id, res)
  \/ \E id \in TaskIds, ok \in BOOLEAN : RestartDone(id, ok)
  \/ \E id \in TaskIds : Returned(id)
  \/ \E id \in TaskIds, ok \in BOOLEAN : FinalResources(id, ok)

EchoSpec == Init /\ [][EchoNext]_vars

\* C21: no event caused by a write of a build ever reaches debounce: no
\* build is scheduled by the builds themselves.
C21_NoSelfRetrigger == echo.scheduled = 0

\* ------------------------------------------------ synchronous functions
\* The functions below run to completion within one step.  A call is
\* recorded in the variable call with its input and its result.
Called(c) ==
  /\ call' = c
  /\ UNCHANGED <<isBuilding, timers, live, tasks, delivered, bursts, invoked, spaced, accepted>>
  /\ UNCHANGED <<missed, staging, dist, generated, builds, uncaught, echo, hot>>

\* ------------------------------------------------------ discoverPlugins
\* A path is the sequence of the directory names below the base directory
\* (<<>> is the base itself).  DirNames lists the names a directory entry
\* can have, in the order readdirSync returns them.
MaxDepth == 2          \* depth of the directory tree below the base

DirNames == <<"a", "b", "dist", "node_modules">>

RECURSIVE PathsUpTo(_)
PathsUpTo(n) ==
  IF n = 0 THEN {<<>>}
  ELSE LET shorter == PathsUpTo(n - 1)
       IN shorter \cup {Append(p, DirNames[i]) : p \in shorter, i \in 1..Len(DirNames)}

Paths == PathsUpTo(MaxDepth)

\* d + path.sep is a prefix of abs
StartsWithDir(abs, d) == Len(d) < Len(abs) /\ SubSeq(abs, 1, Len(d)) = d

\* A directory tree: whether the base exists, and the directories that hold
\* a plugin.json.  Every directory on the way to one of them exists.
Trees ==
  {[exists |-> FALSE, manifests |-> {}]} \cup
  {[exists |-> TRUE, manifests |-> m] : m \in {{}} \cup {{p, q} : p, q \in Paths}}

DirsOf(tree) ==
  IF tree.exists
    THEN {<<>>} \cup {d \in Paths : \E m \in tree.manifests : d = m \/ StartsWithDir(m, d)}
    ELSE {}

\* `entry.name !== 'node_modules' && entry.name !== 'dist'`, negated
\* a traversal that skips node_modules only
SkippedOnlyNodeModules(name) == name = "node_modules"

Skipped(name) == name = "node_modules" \/ name = "dist"

RECURSIVE discoverPlugins(_, _)
discoverPlugins(tree, dirPath) ==
  IF dirPath \notin DirsOf(tree) THEN <<>>
  ELSE LET own == IF dirPath \in tree.manifests THEN <<dirPath>> ELSE <<>>
           RECURSIVE entries(_)
           entries(i) ==
             IF i > Len(DirNames) THEN <<>>
             ELSE LET fullPath == Append(dirPath, DirNames[i])
                      subDirPlugins ==
                        IF fullPath \in DirsOf(tree) /\ ~Skipped(DirNames[i])
                          THEN discoverPlugins(tree, fullPath)
                          ELSE <<>>
                  IN subDirPlugins \o entries(i + 1)
       IN own \o entries(1)

discoverPluginsCall ==
  /\ call = NoCall
  /\ \E tree \in Trees :
        Called([fn |-> "discoverPlugins", in |-> tree, out |-> discoverPlugins(tree, <<>>)])

\* --------------------------------------- path to key (plugin watcher)
\* pluginDirs.find((d) => abs.startsWith(d + path.sep)): the first
\* discovered directory that encloses the file, NoDir (undefined) if none.
NoDir == <<"undefined">>

RECURSIVE FindPluginDir(_, _)
FindPluginDir(dirs, abs) ==
  IF dirs = <<>> THEN NoDir
  ELSE IF StartsWithDir(abs, Head(dirs)) THEN Head(dirs)
  ELSE FindPluginDir(Tail(dirs), abs)

\* The paths the plugin watcher reports: a file f.ts in a directory that is
\* not below a dist or node_modules directory (ignored: outputPaths).
WatchedFiles ==
  {Append(d, "f.ts") :
     d \in {p \in Paths : \A i \in 1..Len(p) : p[i] \notin {"node_modules", "dist"}}}

\* The handler of the plugin watcher for the file abs, the plugin
\* directories being the ones discovered in tree; out is the key it
\* passes to debounce, NoDir if it does not call debounce.
PluginWatcherCall ==
  /\ call = NoCall
  /\ \E tree \in Trees, abs \in WatchedFiles :
        LET dirs == discoverPlugins(tree, <<>>)
        IN Called([fn |-> "pluginWatcher", dirs |-> dirs, abs |-> abs,
                   out |-> FindPluginDir(dirs, abs)])

\* the discovered directories that enclose the file
Enclosing(dirs, abs) == {d \in Range(dirs) : StartsWithDir(abs, d)}

\* C22: the plugin watcher maps a path to the nearest enclosing discovered
\* plugin directory (the longest one), and schedules nothing for a path
\* that no discovered directory encloses.
C22_NearestEnclosingRoot ==
  call.fn = "pluginWatcher" =>
     LET roots == Enclosing(call.dirs, call.abs)
     IN IF roots = {} THEN call.out = NoDir
        ELSE /\ call.out \in roots
             /\ \A d \in roots : Len(d) <= Len(call.out)

\* C30: discoverPlugins returns, each once, exactly the directories at or
\* below the base that hold a plugin.json and have no node_modules or dist
\* directory on the way from the base; it returns the empty list when the
\* base does not exist.
C30_DiscoveryExact ==
  call.fn = "discoverPlugins" =>
     /\ Range(call.out) =
          {m \in call.in.manifests : \A i \in 1..Len(m) : m[i] \notin {"node_modules", "dist"}}
     /\ Cardinality(Range(call.out)) = Len(call.out)
     /\ ~call.in.exists => call.out = <<>>

\* C30 witness: a tree with one plugin directory that is returned and one
\* below a dist directory that is not.
C30_Witness ==
  /\ call.fn = "discoverPlugins"
  /\ Len(call.out) = 1
  /\ \E m \in call.in.manifests : m \notin Range(call.out) /\ "dist" \in Range(m)

\* ------------------------------------------------------ hot-reload server
HotStep(h) ==
  /\ hot' = h
  /\ UNCHANGED <<isBuilding, timers, live, tasks, delivered, bursts, invoked, spaced, accepted>>
  /\ UNCHANGED <<missed, staging, dist, generated, builds, uncaught, echo, call>>

\* startHotReloadServer(options); cmd is options.restartCommand.
startHotReloadServer(cmd) ==
  /\ ~hot.started
  /\ HotStep([hot EXCEPT !.started = TRUE, !.restartCommand = cmd])

\* A client connects: the WebSocketServer adds its socket, OPEN, to
\* wss.clients.
Connect(c) ==
  /\ hot.started
  /\ hot.readyState[c] = "CLOSED"
  /\ HotStep([hot EXCEPT !.readyState[c] = "OPEN", !.clients = Append(@, c)])

\* The closing handshake of a socket starts; the socket stays in
\* wss.clients until it is closed.
BeginClose(c) ==
  /\ hot.readyState[c] = "OPEN"
  /\ HotStep([hot EXCEPT !.readyState[c] = "CLOSING"])

\* The socket is closed and leaves wss.clients.
Closed(c) ==
  /\ hot.readyState[c] = "CLOSING"
  /\ HotStep([hot EXCEPT !.readyState[c] = "CLOSED",
                         !.clients = SelectSeq(@, LAMBDA x : x # c)])

\* `client.readyState === WebSocket.OPEN`
\* a broadcast that does not test readyState
IsOpenUntested(c) == TRUE

IsOpen(c) == hot.readyState[c] = "OPEN"

\* The loop over wss.clients.
RECURSIVE Broadcast(_)
Broadcast(clients) ==
  IF clients = <<>> THEN <<>>
  ELSE (IF IsOpen(Head(clients))
          THEN <<[op |-> "send", to |-> Head(clients), data |-> "reload"]>>
          ELSE <<>>) \o Broadcast(Tail(clients))

\* `if (options.restartCommand) { ... spawn(cmd, args, ...) }`
RunRestartCommand ==
  IF hot.restartCommand # "none"
    THEN <<[op |-> "spawn", to |-> 0, data |-> hot.restartCommand]>>
    ELSE <<>>

\* What the 'all' handler of the watcher does, in order.
\* a handler that runs the restart command before it broadcasts
OnChangeCommandFirst == RunRestartCommand \o Broadcast(hot.clients)

OnChange == Broadcast(hot.clients) \o RunRestartCommand

\* A file under src/ changes: the 'all' handler runs.
FileChanged ==
  /\ hot.started
  /\ hot.events < MaxChanges
  /\ HotStep([hot EXCEPT !.events = @ + 1, !.log = OnChange, !.seen = hot.readyState])

ReloadNext ==
  \/ \E cmd \in {"none", "restart"} : startHotReloadServer(cmd)
  \/ \E c \in Sockets : Connect(c)
  \/ \E c \in Sockets : BeginClose(c)
  \/ \E c \in Sockets : Closed(c)
  \/ FileChanged

ReloadSpec == Init /\ [][ReloadNext]_vars

\* positions of the log that hold an operation op
Ops(op) == {i \in 1..Len(hot.log) : hot.log[i].op = op}

\* C23: for every file event the server sends the literal 'reload' exactly
\* once to every connection that is OPEN when the event is handled, sends
\* nothing to any other connection, and sends no other payload.
C23_ReloadBroadcast ==
  hot.events > 0 =>
     /\ \A c \in Sockets :
          Cardinality({i \in Ops("send") : hot.log[i].to = c})
             = IF hot.seen[c] = "OPEN" THEN 1 ELSE 0
     /\ \A i \in Ops("send") : hot.log[i].data = "reload"

\* C23 witness: an event was handled while one socket was OPEN and another
\* one, still in wss.clients, was CLOSING; one message was sent.
C23_Witness ==
  /\ hot.events > 0
  /\ \E c, d \in Sockets : hot.seen[c] = "OPEN" /\ hot.seen[d] = "CLOSING"
  /\ Cardinality(Ops("send")) = 1

\* C24: for every file event the restart command is spawned exactly once
\* if one is configured, after every reload message of the event has been
\* sent; it is not spawned if none is configured.
C24_RestartAfterReload ==
  hot.events > 0 =>
     /\ Cardinality(Ops("spawn")) = IF hot.restartCommand # "none" THEN 1 ELSE 0
     /\ \A i \in Ops("spawn") : \A j \in Ops("send") : j < i

\* C24 witness: with a restart command configured, an event was handled
\* while a socket was OPEN: a send, then the spawn.
C24_Witness ==
  /\ hot.events > 0
  /\ hot.restartCommand # "none"
  /\ Ops("send") # {}
  /\ Ops("spawn") = {Len(hot.log)}

\* ---------------------------------------------------- manifest validation
\* The schema file schema/plugin.schema.json is not part of the sources at
\* hand; its constraints are the ones the specification states: name and
\* version are required, the other fields are optional, and every field
\* that is present must have the type the schema gives it.
SchemaFields ==
  <<"name", "version", "description", "author", "dependencies", "exports", "permissions">>

RequiredFields == {"name", "version"}

\* The parsed content of a plugin.json: per field of the schema, whether it
\* is absent, present as the schema wants it ("ok"), or present with a
\* value of another type ("bad").
Docs == [Range(SchemaFields) -> {"absent", "ok", "bad"}]

\* the constraint of the schema on field f is violated by data
Violates(data, f) == data[f] = "bad" \/ (f \in RequiredFields /\ data[f] = "absent")

\* `new Ajv({ allErrors: true })`
\* an Ajv instance that stops at the first error
allErrorsOff == FALSE

allErrors == TRUE

\* validateManifest(data): the entries of the message of the Error it
\* throws, one per error object of validateFn.errors; <<>> if it returns.
validateManifest(data) ==
  LET all == SelectSeq(SchemaFields, LAMBDA f : Violates(data, f))
      errors == IF allErrors \/ all = <<>> THEN all ELSE <<Head(all)>>
  IN [i \in 1..Len(errors) |-> <<"schema", errors[i]>>]

\* A plugin.json file: missing, not JSON, or JSON with content data.
ManifestFiles(docs) ==
  {[file |-> f, data |-> [x \in Range(SchemaFields) |-> "absent"]] : f \in {"missing", "unparsable"}}
    \cup {[file |-> "json", data |-> d] : d \in docs}

\* loadManifest(manifestPath): the entries of the message of the Error it
\* throws; <<>> if it returns the manifest.
loadManifest(manifest) ==
  CASE manifest.file = "missing" -> <<<<"ENOENT">>>>
    [] manifest.file = "unparsable" -> <<<<"Failed to parse JSON">>>>
    [] OTHER -> validateManifest(manifest.data)

validateManifestCall ==
  /\ call = NoCall
  /\ \E data \in Docs :
        Called([fn |-> "validateManifest", in |-> data, out |-> validateManifest(data)])

\* C27: a manifest that violates k constraints of the schema makes
\* validateManifest report exactly k error entries.
C27_AllViolationsReported ==
  call.fn = "validateManifest" =>
     /\ Len(call.out) = Cardinality({f \in Range(SchemaFields) : Violates(call.in, f)})
     /\ \A f \in Range(SchemaFields) :
          Violates(call.in, f) => \E i \in 1..Len(call.out) : call.out[i] = <<"schema", f>>

\* C27 witness: a manifest without name whose version and exports have the
\* wrong type: three entries.
C27_Witness ==
  /\ call.fn = "validateManifest"
  /\ call.in["name"] = "absent" /\ call.in["version"] = "bad" /\ call.in["exports"] = "bad"
  /\ Len(call.out) = 3

\* ------------------------------------------------------ plugin validator
requiredDirs == <<"client", "server", "translations", "html", "types">>

\* A plugin directory: its plugin.json and the required directories it has.
ModulesWith(docs) == [manifest : ManifestFiles(docs), dirs : SUBSET Range(requiredDirs)]

\* `fs.existsSync(manifestPath)`
\* a check that takes every manifest to exist
ManifestExistsAlways(module) == TRUE

ManifestExists(module) == module.manifest.file # "missing"

\* validatePluginStructure(pluginDir): the list of errors it returns, and
\* whether it called loadManifest.
validatePluginStructure(module) ==
  LET loaded == ManifestExists(module)
      manifestErrors ==
        IF ~loaded THEN <<<<"Missing plugin.json manifest">>>>
        ELSE IF loadManifest(module.manifest) # <<>>
          THEN <<<<"Invalid manifest", loadManifest(module.manifest)>>>>
          ELSE <<>>
      missing == SelectSeq(requiredDirs, LAMBDA dir : dir \notin module.dirs)
  IN [errors |-> manifestErrors \o [i \in 1..Len(missing) |-> <<"Missing directory", missing[i]>>],
      loaded |-> loaded]

\* the manifests the validator is run on: name and version vary, the
\* optional fields are absent
RequiredOnly == {d \in Docs : \A f \in Range(SchemaFields) \ RequiredFields : d[f] = "absent"}

validatePluginStructureCall ==
  /\ call = NoCall
  /\ \E module \in ModulesWith(RequiredOnly) :
        Called([fn |-> "validatePluginStructure", in |-> module,
                out |-> validatePluginStructure(module)])

\* C25: for a plugin directory without plugin.json, validatePluginStructure
\* reports exactly one 'Missing plugin.json manifest' error and no other
\* manifest error, does not call loadManifest, and still reports every
\* missing required directory.
C25_MissingManifest ==
  (call.fn = "validatePluginStructure" /\ call.in.manifest.file = "missing") =>
     LET errors == call.out.errors
     IN /\ Cardinality({i \in 1..Len(errors) : errors[i] = <<"Missing plugin.json manifest">>}) = 1
        /\ \A i \in 1..Len(errors) : errors[i][1] # "Invalid manifest"
        /\ ~call.out.loaded
        /\ \A i \in 1..Len(requiredDirs) :
              requiredDirs[i] \notin call.in.dirs
                 <=> \E j \in 1..Len(errors) : errors[j] = <<"Missing directory", requiredDirs[i]>>

\* C25 witness: a plugin directory without plugin.json that also lacks the
\* html directory.
C25_Witness ==
  /\ call.fn = "validatePluginStructure"
  /\ call.in.manifest.file = "missing"
  /\ "html" \notin call.in.dirs
  /\ Len(call.out.errors) = 2

\* The loop of validateAllPlugins over pluginDirs: the entries of allErrors.
\* a loop that stops at the first plugin that has errors
RECURSIVE CollectUntilFirst(_)
CollectUntilFirst(dirs) ==
  IF dirs = <<>> THEN <<>>
  ELSE LET errors == validatePluginStructure(Head(dirs).module).errors
       IN IF Len(errors) > 0 THEN <<[plugin |-> Head(dirs).rel, errs |-> errors]>>
          ELSE CollectUntilFirst(Tail(dirs))

RECURSIVE Collect(_)
Collect(dirs) ==
  IF dirs = <<>> THEN <<>>
  ELSE LET errors == validatePluginStructure(Head(dirs).module).errors
       IN (IF Len(errors) > 0 THEN <<[plugin |-> Head(dirs).rel, errs |-> errors]>> ELSE <<>>)
            \o Collect(Tail(dirs))

\* validateAllPlugins(basePath); dirs: the plugin directories
\* getPluginDirs(basePath) returns.  The result says whether it throws and
\* what the message of the Error enumerates.
validateAllPlugins(dirs) ==
  [thrown |-> Len(Collect(dirs)) > 0, msg |-> Collect(dirs)]

\* The directory <base>/<rel>: not there, or there as one of modules.
Listed(rel, modules) == {<<>>} \cup {<<[rel |-> rel, module |-> m]>> : m \in modules}

\* the plugin directories validateAllPlugins is run on: name varies
AggregateModules == ModulesWith({d \in RequiredOnly : d["version"] = "ok"})

validateAllPluginsCall ==
  /\ call = NoCall
  /\ \E a \in Listed("ns/a", AggregateModules), b \in Listed("ns/b", AggregateModules) :
        Called([fn |-> "validateAllPlugins", in |-> a \o b, out |-> validateAllPlugins(a \o b)])

\* C26: validateAllPlugins throws iff some plugin directory has errors, and
\* the message of the one Error it throws lists, once each, exactly the
\* plugin directories that have errors, each with all its errors: one per
\* missing required directory plus the manifest error.
C26_AggregateAll ==
  call.fn = "validateAllPlugins" =>
     LET errorsOf(i) == validatePluginStructure(call.in[i].module).errors
         bad == {i \in 1..Len(call.in) : errorsOf(i) # <<>>}
         msg == call.out.msg
     IN /\ call.out.thrown <=> bad # {}
        /\ Len(msg) = Cardinality(bad)
        /\ \A i \in bad :
             /\ \E j \in 1..Len(msg) : msg[j] = [plugin |-> call.in[i].rel, errs |-> errorsOf(i)]
             /\ Len(errorsOf(i)) =
                   Cardinality(Range(requiredDirs) \ call.in[i].module.dirs)
                     + (IF call.in[i].module.manifest.file = "json"
                           /\ \A f \in RequiredFields : call.in[i].module.manifest.data[f] = "ok"
                        THEN 0 ELSE 1)
        /\ \A j \in 1..Len(msg) : \E i \in bad : msg[j].plugin = call.in[i].rel

\* C26 witness: two plugin directories with errors, the first without the
\* types directory and the second with a manifest that is not valid.
C26_Witness ==
  /\ call.fn = "validateAllPlugins"
  /\ Len(call.out.msg) = 2
  /\ call.out.msg[1].errs = <<<<"Missing directory", "types">>>>
  /\ call.out.msg[2].errs[1][1] = "Invalid manifest"

\* ---------------------------------------------------- buildPluginScripts
\* What the build command reads of the plugin directory it runs in:
\*   exports  per side, whether plugin.json has an array exports.<side>, and
\*            the array (paths relative to the plugin directory)
\*   index    per side, whether <side>/index.ts exists
\*   lua      per directory of searchDirs, its .lua files in readdir order
\*   compiled the sides whose bundle esbuild wrote to dist/<side>.js
Bundled == {"server", "client"}

searchDirs == <<"shared", "server", "client", "locales">>

ExportLists ==
  {[declared |-> FALSE, list |-> <<>>]} \cup
  {[declared |-> TRUE, list |-> l] : l \in {<<>>, <<<<"src", "main.ts">>>>,
                                             <<<<"src", "main.ts">>, <<"src", "extra.ts">>>>}}

Plugins ==
  [exports : [Bundled -> ExportLists], index : [Bundled -> BOOLEAN],
   lua : [Range(searchDirs) -> {<<>>, <<"a.lua">>}], compiled : SUBSET Bundled]

\* `pluginManifest.exports && Array.isArray(pluginManifest.exports.<side>)`
\* a resolution that never takes the exports of plugin.json
DeclaredNever(plugin, side) == FALSE

Declared(plugin, side) == plugin.exports[side].declared

\* The environment pushed for a side, if any: explicit exports as ./<p>,
\* or else the default entry ./<side>/index.ts if that file exists.
Environment(plugin, side) ==
  LET exports_ == plugin.exports[side].list
  IN IF Declared(plugin, side)
       THEN IF Len(exports_) > 0
              THEN <<[name |-> side,
                      entryPoints |-> [i \in 1..Len(exports_) |-> <<".">> \o exports_[i]]]>>
              ELSE <<>>
       ELSE IF plugin.index[side]
              THEN <<[name |-> side, entryPoints |-> <<<<".", side, "index.ts">>>>]>>
              ELSE <<>>

\* luaScriptPaths: the .lua files of the searchDirs, as <<directory, name>>,
\* in the order they are collected.
RECURSIVE luaScriptPaths(_, _)
luaScriptPaths(plugin, i) ==
  IF i > Len(searchDirs) THEN <<>>
  ELSE [j \in 1..Len(plugin.lua[searchDirs[i]]) |-> <<searchDirs[i], plugin.lua[searchDirs[i]][j]>>]
         \o luaScriptPaths(plugin, i + 1)

\* clientScripts / serverScripts; distFiles: the bundles found in dist.
\* a list that puts the compiled bundle first
ScriptsBundleFirst(side, paths, distFiles) ==
  (IF side \in distFiles THEN <<<<side, "js">>>> ELSE <<>>)
    \o SelectSeq(paths, LAMBDA p : p[1] = "shared")
    \o SelectSeq(paths, LAMBDA p : p[1] = "locales")
    \o SelectSeq(paths, LAMBDA p : p[1] = side)

Scripts(side, paths, distFiles) ==
  SelectSeq(paths, LAMBDA p : p[1] = "shared")
    \o SelectSeq(paths, LAMBDA p : p[1] = "locales")
    \o (IF side \in distFiles THEN <<<<side, "js">>>> ELSE <<>>)
    \o SelectSeq(paths, LAMBDA p : p[1] = side)

\* One run of buildPluginScripts.ts in a plugin directory whose dist
\* directory holds nothing from an earlier run: the environments it has
\* built, the lists it passes to createFxmanifest and its exit code.
buildPluginScripts(plugin) ==
  LET environments == Environment(plugin, "server") \o Environment(plugin, "client")
      built == {environments[i].name : i \in 1..Len(environments)}
      distFiles == plugin.compiled \cap built
      paths == luaScriptPaths(plugin, 1)
  IN [environments |-> environments,
      client_scripts |-> Scripts("client", paths, distFiles),
      server_scripts |-> Scripts("server", paths, distFiles),
      exit |-> 0]

buildPluginScriptsCall ==
  /\ call = NoCall
  /\ \E plugin \in Plugins :
        Called([fn |-> "buildPluginScripts", in |-> plugin, out |-> buildPluginScripts(plugin)])

\* C28: per side, the entries built are exactly the ones plugin.json
\* declares (as ./<entry>, the default entry not among them) if it
\* declares a list for the side; else the default entry ./<side>/index.ts
\* alone if that file exists; else the side is not built, and the command
\* does not fail.
C28_EntryResolution ==
  call.fn = "buildPluginScripts" =>
     \A side \in Bundled :
        LET envs == SelectSeq(call.out.environments, LAMBDA e : e.name = side)
            explicit == call.in.exports[side]
            default == <<".", side, "index.ts">>
        IN /\ Len(envs) <= 1
           /\ explicit.declared /\ explicit.list # <<>> =>
                /\ Len(envs) = 1
                /\ Len(envs[1].entryPoints) = Len(explicit.list)
                /\ \A i \in 1..Len(explicit.list) :
                     envs[1].entryPoints[i] = <<".">> \o explicit.list[i]
                /\ default \notin Range(envs[1].entryPoints)
           /\ explicit.declared /\ explicit.list = <<>> => envs = <<>>
           /\ ~explicit.declared /\ call.in.index[side] =>
                Len(envs) = 1 /\ envs[1].entryPoints = <<default>>
           /\ ~explicit.declared /\ ~call.in.index[side] =>
                envs = <<>> /\ call.out.exit = 0

\* C28 witness: a plugin that has both default entries, declares a server
\* list and declares no client list: the declared server entry and the
\* default client entry are built.
C28_Witness ==
  /\ call.fn = "buildPluginScripts"
  /\ call.in.index["server"] /\ call.in.index["client"]
  /\ call.in.exports["server"].declared /\ ~call.in.exports["client"].declared
  /\ Len(call.out.environments) = 2
  /\ call.out.environments[1].entryPoints = <<<<".", "src", "main.ts">>>>
  /\ call.out.environments[2].entryPoints = <<<<".", "client", "index.ts">>>>

\* The lists of side keep the order shared scripts, locale scripts,
\* compiled bundle, scripts of the side.
OrderedScripts(list, side) ==
  LET rank(p) == CASE p[1] = "shared" -> 1
                   [] p[1] = "locales" -> 2
                   [] p = <<side, "js">> -> 3
                   [] OTHER -> 4
  IN \A i, j \in 1..Len(list) : i < j => rank(list[i]) <= rank(list[j])

\* The plugin of the scenario: a server entry only (the default one), one
\* shared script and no other script, the server bundle compiled.
ServerOnlyWithShared(plugin) ==
  /\ ~plugin.exports["server"].declared /\ plugin.index["server"]
  /\ ~plugin.exports["client"].declared /\ ~plugin.index["client"]
  /\ \A d \in Range(searchDirs) : plugin.lua[d] # <<>> <=> d = "shared"
  /\ "server" \in plugin.compiled

C32_NoStuckGuard ==
  /\ [](BuildTasks = {} => ~isBuilding)
  /\ [][(\E id \in BuildTasks : id \notin DOMAIN tasks') => ~isBuilding']_vars

\* C32 witness: the initial pass and a change-driven build have both ended,
\* no build task is left and the guard is free.
C32_Witness ==
  /\ InitialPassDone
  /\ BuildTasks = {}
  /\ ~isBuilding
  /\ \E k \in SourceKeys \cup {MovedKey} : invoked[k] > 0

\* C33: until the initial pass has ended isBuilding is true, no timer is
\* scheduled or pending, no event has been accepted and no task other than
\* the initial pass has been started.
C33_StartupQuarantine ==
  ~InitialPassDone =>
     /\ isBuilding
     /\ live = {}
     /\ \A k \in Keys : timers[k] = NoTimer /\ accepted[k] = 0 /\ invoked[k] = 0
     /\ \A id \in DOMAIN tasks : tasks[id].key = InitKey

\* C33 witness: the initial pass is still building and a change of a
\* watched source was delivered and left no timer.
C33_Witness ==
  /\ ~InitialPassDone
  /\ \E id \in DOMAIN tasks : tasks[id].pc = "exec"
  /\ \E k \in SourceKeys : spaced[k] > 0 /\ timers[k] = NoTimer

\* C34: a pending timer leaves the pending set only by firing or by an
\* accepted event of its own key that schedules its replacement; a timer
\* that fires invokes the task of its key whether isBuilding is true or
\* false; and the key of a pending timer eventually has its task invoked.
C34_TimerFiresRegardless ==
  /\ [][\A t \in live : t \notin live' =>
          \/ /\ invoked'[t.key] = invoked[t.key] + 1
             /\ \E id \in DOMAIN tasks' \ DOMAIN tasks : tasks'[id].key = t.key
          \/ /\ accepted'[t.key] = accepted[t.key] + 1
             /\ ~isBuilding
             /\ LiveOf(t.key)' # {}]_vars
  /\ \A k \in Keys : (timers[k] # NoTimer) ~> (timers[k] = NoTimer /\ invoked[k] > 0)

\* C34 witness: a timer accepted while the guard was free has fired while
\* another build task held the guard, and its task runs beside that one.
C34_Witness ==
  \E a \in BuildTasks, b \in DOMAIN tasks :
     a # b /\ tasks[a].key # InitKey /\ tasks[b].key # tasks[a].key /\ invoked[tasks[b].key] = 1

\* ------------------------------------------------------- rebuildPlugin
\* C36: when the build command of a plugin cycle fails, the output
\* directory dist/<rel> of the plugin exists and is empty.
C36_CleanOutputOnFailure ==
  [][\A id \in DOMAIN tasks :
       (tasks[id].pc = "exec" /\ Target(tasks[id]) \in PluginKeys /\ id \notin DOMAIN tasks')
          => dist'[Target(tasks[id])] = EmptyDir]_vars

Responses == {"ok", "unsuccessful", "non2xx", "none", "setup"}

\* resourceManager.<method>(name) as the watcher calls it; running: the
\* resources the server would list, response: how the request settles.
\* The result says whether the call throws, and the value it returns.
CoreManager(method, name, running, response) ==
  CASE method \notin CoreManagerMethods ->
         [thrown |-> TRUE, value |-> "TypeError: not a function"]
    [] method = "getResources" ->
         [thrown |-> FALSE, value |-> IF response = "ok" THEN running ELSE <<>>]
    [] method = "resourceExists" ->
         [thrown |-> FALSE,
          value |-> name \in Range(IF response = "ok" THEN running ELSE <<>>)]
    [] OTHER ->
         [thrown |-> FALSE,
          value |-> [success |-> response = "ok",
                     message |-> IF response \in {"ok", "unsuccessful"}
                                   THEN "response.data.message"
                                   ELSE "Failed to restart"]]

CoreManagerCall ==
  /\ call = NoCall
  /\ \E method \in {"getResources", "resourceExists", "restartResource", "startResource"},
        running \in {<<>>, <<"core">>}, response \in Responses :
        Called([fn |-> "CoreManager", method |-> method, running |-> running,
                response |-> response,
                out |-> CoreManager(method, "core", running, response)])

\* C31: none of list, exists, restart and start lets an error reach its
\* caller; when the request fails, list returns the empty list, exists
\* returns false, restart and start return success = false and a message.
C31_ClientNeverThrows ==
  call.fn = "CoreManager" =>
     /\ ~call.out.thrown
     /\ call.response # "ok" =>
          CASE call.method = "getResources" -> call.out.value = <<>>
            [] call.method = "resourceExists" -> call.out.value = FALSE
            [] OTHER -> ~call.out.value.success /\ call.out.value.message # ""

\* restartResource(resourceName) of the watcher: the methods of the
\* lifecycle client it calls, in order, and whether an error leaves it.
\* a restartResource that restarts a resource it has not found
restartResourceAlways(name, running, listed) ==
  [calls |-> <<"resourceExists", "restartResource">>, thrown |-> FALSE]

restartResource(name, running, listed) ==
  LET exists == CoreManager("resourceExists", name, running, listed).value
  IN [calls |-> <<"resourceExists">>
                  \o (IF exists THEN <<"restartResource">> ELSE <<"startResource">>),
      thrown |-> FALSE]

restartResourceCall ==
  /\ call = NoCall
  /\ \E running \in {<<>>, <<"core">>}, listed \in Responses :
        Called([fn |-> "restartResource", running |-> running, listed |-> listed,
                out |-> restartResource("core", running, listed)])

\* C35: when the list request fails, restartResource finds the resource
\* absent whatever runs on the server: it takes the start path and issues
\* no restart.
C35_ListFailureMeansStart ==
  (call.fn = "restartResource" /\ call.listed # "ok") =>
     /\ "restartResource" \notin Range(call.out.calls)
     /\ "startResource" \in Range(call.out.calls)

\* C35 witness: the resource runs on the server, the list request gets no
\* response, and restartResource has gone the start path.
C35_Witness ==
  /\ call.fn = "restartResource"
  /\ call.running = <<"core">>
  /\ call.listed = "none"
  /\ call.out.calls = <<"resourceExists", "startResource">>

\* ------------------------------------------- the moveBuiltResources script
\* Lines of server.cfg, as sequences of the pieces that matter to trim()
\* and startsWith(): blanks, the word ensure, resource names, other text.
CfgLines ==
  { <<"ensure", " ", "[GENERATED]">>,
    <<" ", "ensure", " ", "[GENERATED]", " ", "#">>,
    <<"ensure", " ", "core">>,
    <<" ", "ensure", " ", "webview", " ">>,
    <<"ensure", " ">>,
    <<"#", " ", "ensure", " ", "core">>,
    <<>> }

\* String.prototype.trim on a line
RECURSIVE trim(_)
trim(line) ==
  CASE line = <<>> -> line
    [] Head(line) = " " -> trim(Tail(line))
    [] line[Len(line)] = " " -> trim(SubSeq(line, 1, Len(line) - 1))
    [] OTHER -> line

startsWith(line, prefix) ==
  Len(line) >= Len(prefix) /\ SubSeq(line, 1, Len(prefix)) = prefix

\* The update of server.cfg by one run of the script: lines is
\* cfgText.split('\n'), movedResources the number of directories the run
\* has moved.  The result is the lines the file holds after the run and
\* whether the run wrote it.
\* an update that does not look for an existing ensure [GENERATED] line
updateServerCfgBlind(lines, movedResources) ==
  [lines |-> Append(lines, <<"ensure", " ", "[GENERATED]">>), configUpdated |-> TRUE]

updateServerCfg(lines, movedResources) ==
  LET hasGeneratedEnsure ==
        \E i \in DOMAIN lines : startsWith(trim(lines[i]), <<"ensure", " ", "[GENERATED]">>)
      ensures == {i \in DOMAIN lines : startsWith(trim(lines[i]), <<"ensure", " ">>)}
      lastEnsureIndex ==
        IF ensures = {} THEN 0 ELSE CHOOSE i \in ensures : \A j \in ensures : j <= i
  IN IF ~hasGeneratedEnsure /\ movedResources > 0
       THEN [lines |-> IF lastEnsureIndex > 0
                         THEN SubSeq(lines, 1, lastEnsureIndex)
                                \o <<<<"ensure", " ", "[GENERATED]">>>>
                                \o SubSeq(lines, lastEnsureIndex + 1, Len(lines))
                         ELSE Append(lines, <<"ensure", " ", "[GENERATED]">>),
             configUpdated |-> TRUE]
       ELSE [lines |-> lines, configUpdated |-> FALSE]

\* every server.cfg of up to n lines
RECURSIVE Cfgs(_)
Cfgs(n) ==
  IF n = 0 THEN {<<>>}
  ELSE LET shorter == Cfgs(n - 1)
       IN shorter \cup {Append(c, l) : c \in {x \in shorter : Len(x) = n - 1}, l \in CfgLines}

\* Two runs of the script, one after the other, on the same server.cfg.
updateServerCfgCall ==
  /\ call = NoCall
  /\ \E lines \in Cfgs(MaxLines), first \in 0..1, second \in 0..1 :
        LET run1 == updateServerCfg(lines, first)
        IN Called([fn |-> "updateServerCfg", in |-> lines, moved |-> <<first, second>>,
                   out |-> <<run1, updateServerCfg(run1.lines, second)>>])

\* C37: over two runs of the script at most one line is added to
\* server.cfg; a run adds the line 'ensure [GENERATED]' exactly when it has
\* moved a resource and server.cfg has no line that, trimmed, starts with
\* 'ensure [GENERATED]'; the line goes directly after the last line that,
\* trimmed, starts with 'ensure ', or to the end when there is none; every
\* other line keeps its content and its place in the order.
C37_EnsureLineOnce ==
  call.fn = "updateServerCfg" =>
    LET G == <<"ensure", " ", "[GENERATED]">>
        IsEnsure(l) == startsWith(trim(l), <<"ensure", " ">>)
        Has(ls) == \E i \in DOMAIN ls : startsWith(trim(ls[i]), G)
        Without(ls, p) == SubSeq(ls, 1, p - 1) \o SubSeq(ls, p + 1, Len(ls))
        RunOk(before, moved, after) ==
          IF moved > 0 /\ ~Has(before)
            THEN /\ after.configUpdated
                 /\ \E p \in DOMAIN after.lines :
                      /\ after.lines[p] = G
                      /\ Without(after.lines, p) = before
                      /\ \A i \in p..Len(before) : ~IsEnsure(before[i])
                      /\ (\E i \in DOMAIN before : IsEnsure(before[i]))
                            => (p > 1 /\ IsEnsure(before[p - 1]))
                      /\ (\A i \in DOMAIN before : ~IsEnsure(before[i])) => p = Len(before) + 1
            ELSE after.lines = before /\ ~after.configUpdated
    IN /\ RunOk(call.in, call.moved[1], call.out[1])
       /\ RunOk(call.out[1].lines, call.moved[2], call.out[2])
       /\ Len(call.out[2].lines) <= Len(call.in) + 1

\* C37 witness: the first run has put the line between the last ensure line
\* and the line after it, and the second run, which also moved a resource,
\* has left server.cfg as the first run wrote it.
C37_Witness ==
  /\ call.fn = "updateServerCfg"
  /\ call.in = << <<"ensure", " ", "core">>, <<" ", "ensure", " ", "webview", " ">>, <<>> >>
  /\ call.moved = <<1, 1>>
  /\ call.out[1].lines[3] = <<"ensure", " ", "[GENERATED]">>
  /\ call.out[2].lines = call.out[1].lines
  /\ ~call.out[2].configUpdated

\* The entries readdir(distDir, {withFileTypes: true}) can return: up to
\* three entries with different names, each a directory or a file.
DistNames == {"scripts", "core", "webview"}

DistEntries ==
  {entries \in UNION {[1..n -> [name : DistNames, isDirectory : BOOLEAN]] : n \in 0..3} :
     \A i, j \in DOMAIN entries : entries[i].name = entries[j].name => i = j}

\* The loop skips what is not a directory and the directory scripts.
\* a loop that skips only what is not a directory
SkippedFilesOnly(entry) == ~entry.isDirectory

SkippedEntry(entry) == ~entry.isDirectory \/ entry.name = "scripts"

\* One run of the script from the loop over distEntries on.  old says for
\* each name what resources/[GENERATED]/<name> holds before the run
\* ("none" or "old"); what dist/<name> holds is written "new".  fail names
\* the entry (0: none) and the call (rm, mkdir or rename) that throws.  The
\* result: the entries left in dist, the content of [GENERATED], the moved
\* names, the exit code and whether the run has come to read server.cfg.
RECURSIVE moveLoop(_, _, _, _)
moveLoop(entries, i, fail, st) ==
  IF i > Len(entries)
    THEN [st EXCEPT !.cfgRead = TRUE]
    ELSE LET entry == entries[i]
         IN CASE SkippedEntry(entry) -> moveLoop(entries, i + 1, fail, st)
              [] fail.at = i /\ fail.op = "rm" -> [st EXCEPT !.exit = 1]
              [] fail.at = i /\ fail.op # "rm" ->
                   [st EXCEPT !.exit = 1, !.generated[entry.name] = "none"]
              [] OTHER ->
                   moveLoop(entries, i + 1, fail,
                            [st EXCEPT !.dist = @ \ {entry.name},
                                       !.generated[entry.name] = "new",
                                       !.movedResources = Append(@, entry.name)])

moveEntries(entries, old, fail) ==
  moveLoop(entries, 1, fail,
           [dist |-> {entries[i].name : i \in DOMAIN entries}, generated |-> old,
            movedResources |-> <<>>, exit |-> 0, cfgRead |-> FALSE])

moveEntriesCall ==
  /\ call = NoCall
  /\ \E entries \in DistEntries, core \in {"none", "old"}, webview \in {"none", "old"},
        fail \in [at : 0..3, op : {"rm", "mkdir", "rename"}] :
        LET old == [n \in DistNames |-> CASE n = "core" -> core
                                                [] n = "webview" -> webview
                                                [] OTHER -> "old"]
        IN /\ fail.at = 0 => fail.op = "rm"
           /\ Called([fn |-> "moveEntries", in |-> entries, generated |-> old,
                      fail |-> fail, out |-> moveEntries(entries, old, fail)])

\* C38: after a run that exits with 0, every directory of dist other than
\* scripts is gone from dist and [GENERATED]/<name> holds exactly what
\* dist/<name> held, and nothing else of dist or [GENERATED] has changed;
\* a run in which a move fails exits with a failure and has not come to
\* server.cfg.
C38_MoveAllOrFail ==
  call.fn = "moveEntries" =>
    LET dirs == {call.in[i].name : i \in {j \in DOMAIN call.in :
                    call.in[j].isDirectory /\ call.in[j].name # "scripts"}}
        all == {call.in[i].name : i \in DOMAIN call.in}
        failed == call.fail.at \in DOMAIN call.in /\ call.in[call.fail.at].name \in dirs
    IN IF failed
         THEN call.out.exit = 1 /\ ~call.out.cfgRead
         ELSE /\ call.out.exit = 0
              /\ call.out.dist = all \ dirs
              /\ \A n \in DistNames :
                   call.out.generated[n] = IF n \in dirs THEN "new" ELSE call.generated[n]

\* C38 witness: dist held a file, scripts and two built directories, one of
\* which replaced an older one in [GENERATED]; both were moved.
C38_Witness ==
  /\ call.fn = "moveEntries"
  /\ call.fail.at = 0
  /\ call.in = <<[name |-> "scripts", isDirectory |-> TRUE],
                 [name |-> "core", isDirectory |-> TRUE],
                 [name |-> "webview", isDirectory |-> TRUE]>>
  /\ call.generated["core"] = "old" /\ call.generated["webview"] = "none"
  /\ call.out.movedResources = <<"core", "webview">>
  /\ call.out.dist = {"scripts"}
  /\ call.out.exit = 0

CallNext ==
  \/ discoverPluginsCall
  \/ PluginWatcherCall
  \/ validateManifestCall
  \/ validatePluginStructureCall
  \/ validateAllPluginsCall
  \/ buildPluginScriptsCall
  \/ CoreManagerCall
  \/ restartResourceCall

CallSpec == Init /\ [][CallNext]_vars

ScriptNext ==
  \/ updateServerCfgCall
  \/ moveEntriesCall

ScriptSpec == Init /\ [][ScriptNext]_vars

====
